---------------------------- MODULE Spec2Model ----------------------------
(***************************************************************************)
(* The CDC pipeline of aws_pipeline_Mar_2025:                              *)
(*   src/lambda_trigger.py  lambda_handler: S3 notification -> Glue job    *)
(*   src/glue.py            the Glue script: classify, merge, write to a   *)
(*                          temporary prefix, copy to des_file/            *)
(*                          final_output.csv, clean up, commit             *)
(* DataFrames are bags (multisets) of rows: Spark fixes no row order.      *)
(***************************************************************************)
EXTENDS Bags, FiniteSets, Integers, Sequences, TLC

(* ------------------------------ bounds -------------------------------- *)
\* rows in one uploaded input file
MaxBatch == 2
\* rows of the final file a run may find (written by an earlier run)
MaxPrior == 2
\* job runs started one after another, or interleaved, in one behaviour
MaxRuns == 2
\* the clock (datetime.utcnow(), in whole seconds) takes the values 0..MaxTs
MaxTs == 1
\* characters in the percent-encoded object key of a notification
MaxKeyLen == 4

(* --------------------------- DataFrame rows --------------------------- *)
\* A SQL integer is <<n>>, SQL NULL is <<>>.
Null == <<>>

RawIds == {"1", "2", "x"}
Names == {"a", "b"}
Cities == {"c"}

\* col("PersonID").cast("int") over the text of a CSV field: the digits give
\* the integer, anything else (and the empty field) gives NULL.
CastInt(s) ==
    CASE s = "1" -> <<1>>
      [] s = "2" -> <<2>>
      [] OTHER -> Null

\* How the CSV writer prints an int column: NULL is the empty field.
FormatInt(v) ==
    CASE v = <<1>> -> "1"
      [] v = <<2>> -> "2"
      [] OTHER -> ""

\* SQL equality as a join condition: NULL equals nothing, itself included.
KeyEq(a, b) == a # Null /\ b # Null /\ a = b

(* ------------------------- DataFrame operators ------------------------ *)
RECURSIVE SumCounts(_, _)
SumCounts(B, S) ==
    IF S = {} THEN 0
    ELSE LET x == CHOOSE y \in S : TRUE
         IN  B[x] + SumCounts(B, S \ {x})

\* df.filter: the rows of B that are in S, as often as B holds them
Filter(B, S) == [e \in DOMAIN B \cap S |-> B[e]]

\* df.select(...) / withColumn / toDF: row x becomes F[x], copies kept
Project(F, B) ==
    [y \in {F[x] : x \in DOMAIN B} |->
        SumCounts(B, {x \in DOMAIN B : F[x] = y})]

\* a.unionByName(b): bag union, nothing deduplicated
UnionByName(a, b) == a (+) b

\* left.join(right, on="PersonID", how="left_anti")
LeftAnti(left, right) ==
    Filter(left, {l \in DOMAIN left :
        ~ \E r \in DOMAIN right : KeyEq(l.PersonID, r.PersonID)})

\* toDF("Op","PersonID","FullName","City").withColumn("PersonID", cast int)
ToDF4(t) ==
    [Op |-> t[1], PersonID |-> CastInt(t[2]), FullName |-> t[3], City |-> t[4]]

\* toDF("PersonID","FullName","City").withColumn("PersonID", cast int)
ToDF3(t) == [PersonID |-> CastInt(t[1]), FullName |-> t[2], City |-> t[3]]

Select3(r) == [PersonID |-> r.PersonID, FullName |-> r.FullName, City |-> r.City]
SelectId(r) == [PersonID |-> r.PersonID]

(* ------------------------------ CSV files ----------------------------- *)
OutHeader == <<"PersonID", "FullName", "City">>

\* no object at the key
NoFile == [exists |-> FALSE, header |-> <<>>, rows |-> EmptyBag]

\* write.option("header", True).csv: the header line, then one line per row
CsvWrite(df) ==
    [exists |-> TRUE,
     header |-> OutHeader,
     rows   |-> Project([r \in DOMAIN df |->
                   <<FormatInt(r.PersonID), r.FullName, r.City>>], df)]

\* the field of line t under the header's column `name`
Field(file, t, name) ==
    t[CHOOSE i \in DOMAIN file.header : file.header[i] = name]

\* spark.read.option("header", True).csv(final) with PersonID cast to int
\* and the three columns selected by name
ReadExisting(file) ==
    Project([t \in DOMAIN file.rows |->
        [PersonID |-> CastInt(Field(file, t, "PersonID")),
         FullName |-> Field(file, t, "FullName"),
         City     |-> Field(file, t, "City")]], file.rows)

(* ------------------------------- inputs ------------------------------- *)
RECURSIVE BagsUpTo(_, _)
BagsUpTo(S, n) ==
    IF n = 0 THEN {EmptyBag}
    ELSE LET prev == BagsUpTo(S, n - 1)
         IN  prev \cup {B (+) SetToBag({e}) : B \in prev, e \in S}

\* lines of a CDC file: Op, PersonID, FullName, City (a Delete line's name
\* and city are not read)
Lines4 ==
    {<<op, id, n, c>> : op \in {"I", "U"}, id \in RawIds, n \in Names, c \in Cities}
    \cup {<<"D", id, "a", "c">> : id \in RawIds}
\* lines of a full-snapshot file: PersonID, FullName, City
Lines3 == {<<id, n, c>> : id \in RawIds, n \in Names, c \in Cities}

\* An uploaded file with no header. A file with no line has no column, so a
\* 3- or 4-column file has at least one line.
InputFiles ==
    (BagsUpTo(Lines4, MaxBatch) \cup BagsUpTo(Lines3, MaxBatch))
    \cup {SetToBag({<<"1", "a">>}), SetToBag({<<"I", "1", "a", "c", "z">>})}

\* len(df.columns) of spark.read.option("header", False).csv(input_path)
NumCols(file) ==
    IF file = EmptyBag THEN 0
    ELSE Len(CHOOSE t \in DOMAIN file : TRUE)


(* ------------------------------- state -------------------------------- *)
\* job runs that may be in flight at once (Spec uses run slot 1 only)
Slots == {1, 2}
Timestamps == 0 .. MaxTs

VARIABLES
    canonical,  \* the object at des_file/final_output.csv, or NoFile
    temp,       \* temp[t]: the objects under des_file/temp_output_<t>/
    now,        \* datetime.utcnow(), whole seconds
    runs,       \* job runs started so far
    pc,         \* pc[r]: where run slot r stands in the script
    rid,        \* rid[r]: the run's id (it names the part file it writes)
    ts,         \* ts[r]: `timestamp`
    input,      \* input[r]: the lines of the file at input_path
    fileType,   \* fileType[r]: `file_type`
    warned,     \* warned[r]: "No existing final file found" was logged
    df,         \* df[r]: the DataFrame to write
    copied,     \* copied[r]: id of the run whose part file r copied, 0 if none
    err,        \* err[r]: the exception that ended the run
    event,      \* the notification lambda_handler was last called with
    calls,      \* the start_job_run calls of that invocation
    result      \* what that invocation returned or raised

jobVars == <<canonical, temp, now, runs, pc, rid, ts, input, fileType,
             warned, df, copied, err>>
triggerVars == <<event, calls, result>>
vars == <<canonical, temp, now, runs, pc, rid, ts, input, fileType,
          warned, df, copied, err, event, calls, result>>

(* --------------------------- the merge (43-70) ------------------------ *)
\* lines 47-53: the existing final file, or the empty frame when the read
\* raises (no such object, or any other error: the except is bare)
LoadExisting(file, readable) ==
    IF file.exists /\ readable THEN ReadExisting(file) ELSE EmptyBag

\* df.filter(col("Op") == op)
WithOp(d, op) == Filter(d, {r \in DOMAIN d : r.Op = op})

Inserts(d) == Project([r \in DOMAIN d |-> Select3(r)], WithOp(d, "I"))
Updates(d) == Project([r \in DOMAIN d |-> Select3(r)], WithOp(d, "U"))
Deletes(d) == Project([r \in DOMAIN d |-> SelectId(r)], WithOp(d, "D"))

\* df.toDF("Op", ...) of the input lines
Frame4(file) == Project([t \in DOMAIN file |-> ToDF4(t)], file)
\* df.toDF("PersonID", ...) of the input lines
Frame3(file) == Project([t \in DOMAIN file |-> ToDF3(t)], file)
\* updates.select("PersonID")
Ids(d) == Project([r \in DOMAIN d |-> SelectId(r)], d)

\* The final files an earlier run of the script can have left: the CSV of
\* any typed frame, the header-only file included.
PriorFiles ==
    {NoFile} \cup {CsvWrite(Frame3(f)) : f \in BagsUpTo(Lines3, MaxPrior)}

\* MergeCdc with a fault: the anti-join on the updated keys is left out
MergeCdcKeepsUpdated(existing, file) ==
    LET d == Frame4(file)
    IN  UnionByName(UnionByName(LeftAnti(existing, Deletes(d)), Inserts(d)),
                    Updates(d))

\* lines 44-45 and 55-66
MergeCdc(existing, file) ==
    LET d == Frame4(file)
        current == LeftAnti(LeftAnti(existing, Deletes(d)),
                            Ids(Updates(d)))
    IN  UnionByName(UnionByName(current, Inserts(d)), Updates(d))

\* SnapshotBatch with a fault: the batch is appended to the existing file
SnapshotBatchAppends(existing, file) ==
    UnionByName(existing, Frame3(file))

\* lines 69-70
SnapshotBatch(existing, file) == Frame3(file)

(* --------------------------- S3 objects ------------------------------- *)
\* what Spark leaves under the temporary prefix: one part-<uuid>.csv (the
\* uuid is the writing run's) and the _SUCCESS marker
PartObject(id, body) == [name |-> "part.csv", writer |-> id, body |-> body]
SuccessMarker ==
    [name |-> "_SUCCESS", writer |-> 0,
     body |-> [exists |-> TRUE, header |-> <<>>, rows |-> EmptyBag]]

\* IsPartFile with a fault: every object under the prefix matches
IsPartFileAny(o) == TRUE

\* re.match(r".*/part-.*\.csv$", obj.key)
IsPartFile(o) == o.name = "part.csv"

\* lines 26, 82, 98: the prefix des_file/temp_output_<timestamp>/
TempPrefix(t) == t

(* ------------------------------ Init ---------------------------------- *)
NoEvent == [none |-> TRUE]

Init ==
    /\ canonical \in PriorFiles
    /\ temp = [t \in Timestamps |-> {}]
    /\ now = 0
    /\ runs = 0
    /\ pc = [r \in Slots |-> "idle"]
    /\ rid = [r \in Slots |-> 0]
    /\ ts = [r \in Slots |-> 0]
    /\ input = [r \in Slots |-> EmptyBag]
    /\ fileType = [r \in Slots |-> ""]
    /\ warned = [r \in Slots |-> FALSE]
    /\ df = [r \in Slots |-> EmptyBag]
    /\ copied = [r \in Slots |-> 0]
    /\ err = [r \in Slots |-> ""]
    /\ event = NoEvent
    /\ calls = <<>>
    /\ result = [kind |-> "none"]

(* ----------------------- the Glue script, by step --------------------- *)
\* Step 1, lines 12-27: a run starts on the file at input_path
Setup(r, files, times, limit) ==
    /\ pc[r] \in {"idle", "committed", "failed"}
    /\ runs < limit
    /\ \E f \in files, t \in times :
          /\ now' = t
          /\ ts' = [ts EXCEPT ![r] = t]
          /\ input' = [input EXCEPT ![r] = f]
    /\ runs' = runs + 1
    /\ rid' = [rid EXCEPT ![r] = runs + 1]
    /\ fileType' = [fileType EXCEPT ![r] = ""]
    /\ warned' = [warned EXCEPT ![r] = FALSE]
    /\ df' = [df EXCEPT ![r] = EmptyBag]
    /\ copied' = [copied EXCEPT ![r] = 0]
    /\ err' = [err EXCEPT ![r] = ""]
    /\ pc' = [pc EXCEPT ![r] = "read"]
    /\ UNCHANGED <<canonical, temp, event, calls, result>>

\* ReadInput with a fault: four columns or more are taken for a CDC file
ReadInputWide(r) ==
    /\ pc[r] = "read"
    /\ LET num_cols == NumCols(input[r])
       IN  IF num_cols >= 4
           THEN /\ fileType' = [fileType EXCEPT ![r] = "cdc"]
                /\ pc' = [pc EXCEPT ![r] = "apply"]
                /\ err' = err
           ELSE IF num_cols = 3
           THEN /\ fileType' = [fileType EXCEPT ![r] = "snapshot"]
                /\ pc' = [pc EXCEPT ![r] = "apply"]
                /\ err' = err
           ELSE /\ fileType' = fileType
                /\ pc' = [pc EXCEPT ![r] = "failed"]
                /\ err' = [err EXCEPT ![r] = "ValueError"]
    /\ UNCHANGED <<canonical, temp, now, runs, rid, ts, input, warned, df,
                   copied, event, calls, result>>

\* Step 2, lines 30-40
ReadInput(r) ==
    /\ pc[r] = "read"
    /\ LET num_cols == NumCols(input[r])
       IN  IF num_cols = 4
           THEN /\ fileType' = [fileType EXCEPT ![r] = "cdc"]
                /\ pc' = [pc EXCEPT ![r] = "apply"]
                /\ err' = err
           ELSE IF num_cols = 3
           THEN /\ fileType' = [fileType EXCEPT ![r] = "snapshot"]
                /\ pc' = [pc EXCEPT ![r] = "apply"]
                /\ err' = err
           ELSE /\ fileType' = fileType
                /\ pc' = [pc EXCEPT ![r] = "failed"]
                /\ err' = [err EXCEPT ![r] = "ValueError"]
    /\ UNCHANGED <<canonical, temp, now, runs, rid, ts, input, warned, df,
                   copied, event, calls, result>>

\* ApplyLogic with a fault: no try/except around the read of the final file
ApplyLogicNoExcept(r) ==
    /\ pc[r] = "apply"
    /\ IF fileType[r] = "cdc"
       THEN \E readable \in BOOLEAN :
              IF canonical.exists /\ readable
              THEN /\ df' = [df EXCEPT ![r] =
                               MergeCdc(ReadExisting(canonical), input[r])]
                   /\ pc' = [pc EXCEPT ![r] = "write"]
                   /\ err' = err
              ELSE /\ df' = df
                   /\ pc' = [pc EXCEPT ![r] = "failed"]
                   /\ err' = [err EXCEPT ![r] = "AnalysisException"]
       ELSE /\ df' = [df EXCEPT ![r] =
                        SnapshotBatch(LoadExisting(canonical, TRUE), input[r])]
            /\ pc' = [pc EXCEPT ![r] = "write"]
            /\ err' = err
    /\ UNCHANGED <<canonical, temp, now, runs, rid, ts, input, fileType,
                   warned, copied, event, calls, result>>

\* Step 3, lines 43-72
ApplyLogic(r) ==
    /\ pc[r] = "apply"
    /\ IF fileType[r] = "cdc"
       THEN \E readable \in BOOLEAN :
              /\ warned' = [warned EXCEPT ![r] = ~(canonical.exists /\ readable)]
              /\ df' = [df EXCEPT ![r] =
                          MergeCdc(LoadExisting(canonical, readable), input[r])]
       ELSE /\ warned' = warned
            /\ df' = [df EXCEPT ![r] =
                        SnapshotBatch(LoadExisting(canonical, TRUE), input[r])]
    /\ pc' = [pc EXCEPT ![r] = "write"]
    /\ UNCHANGED <<canonical, temp, now, runs, rid, ts, input, fileType,
                   copied, err, event, calls, result>>

\* Step 4, lines 75-76: mode("overwrite") empties the prefix, then the part
\* file and the marker appear; the listing of step 5 may show no part file
\* (the case line 91 is written for), and the write may raise
WriteTemp(r) ==
    /\ pc[r] = "write"
    /\ \E outcome \in {"part", "nopart", "raise"} :
          IF outcome = "raise"
          THEN /\ temp' = temp
               /\ pc' = [pc EXCEPT ![r] = "failed"]
               /\ err' = [err EXCEPT ![r] = "WriteError"]
          ELSE /\ temp' = [temp EXCEPT ![TempPrefix(ts[r])] =
                              {SuccessMarker} \cup
                              IF outcome = "part"
                              THEN {PartObject(rid[r], CsvWrite(df[r]))}
                              ELSE {}]
               /\ pc' = [pc EXCEPT ![r] = "promote"]
               /\ err' = err
    /\ UNCHANGED <<canonical, now, runs, rid, ts, input, fileType, warned,
                   df, copied, event, calls, result>>

\* Step 5, lines 79-93: the first listed part file is copied over the final
\* key (one S3 copy: it happens whole or raises); with none, an error is
\* logged and the function returns
move_part_to_final(r) ==
    /\ pc[r] = "promote"
    /\ LET parts == {o \in temp[TempPrefix(ts[r])] : IsPartFile(o)}
       IN  IF parts = {}
           THEN /\ UNCHANGED <<canonical, copied, err>>
                /\ pc' = [pc EXCEPT ![r] = "cleanup"]
           ELSE \E o \in parts, ok \in BOOLEAN :
                  IF ok
                  THEN /\ canonical' = o.body
                       /\ copied' = [copied EXCEPT ![r] = o.writer]
                       /\ pc' = [pc EXCEPT ![r] = "cleanup"]
                       /\ err' = err
                  ELSE /\ UNCHANGED <<canonical, copied>>
                       /\ pc' = [pc EXCEPT ![r] = "failed"]
                       /\ err' = [err EXCEPT ![r] = "CopyError"]
    /\ UNCHANGED <<temp, now, runs, rid, ts, input, fileType, warned, df,
                   event, calls, result>>

\* Step 6, lines 96-108, when list_objects_v2 and delete_objects return:
\* every object under the prefix is deleted, or there was none
cleanup_temp_folder(r) ==
    /\ pc[r] = "cleanup"
    /\ temp' = [temp EXCEPT ![TempPrefix(ts[r])] = {}]
    /\ pc' = [pc EXCEPT ![r] = "commit"]
    /\ UNCHANGED <<canonical, now, runs, rid, ts, input, fileType, warned,
                   df, copied, err, event, calls, result>>

\* Step 6 when list_objects_v2 or delete_objects raises: nothing catches it
cleanup_temp_folder_raises(r) ==
    /\ pc[r] = "cleanup"
    /\ pc' = [pc EXCEPT ![r] = "failed"]
    /\ err' = [err EXCEPT ![r] = "ClientError"]
    /\ UNCHANGED <<canonical, temp, now, runs, rid, ts, input, fileType,
                   warned, df, copied, event, calls, result>>

\* Step 7, line 111
Commit(r) ==
    /\ pc[r] = "commit"
    /\ pc' = [pc EXCEPT ![r] = "committed"]
    /\ UNCHANGED <<canonical, temp, now, runs, rid, ts, input, fileType,
                   warned, df, copied, err, event, calls, result>>

(* ------------------------- lambda_trigger.py -------------------------- *)
KeyChars == {"k", "/", "+", "%", "2", "F"}
HexDigits == {"2", "F"}

RECURSIVE SeqsUpTo(_, _)
SeqsUpTo(S, n) ==
    IF n = 0 THEN {<<>>}
    ELSE LET prev == SeqsUpTo(S, n - 1)
         IN  prev \cup {Append(q, c) : q \in prev, c \in S}

ObjectKeys == SeqsUpTo(KeyChars, MaxKeyLen)
BucketNames == {"bkt"}

\* the S3 "object created" notification
S3Event(b, k) ==
    [Records |-> <<[s3 |-> [bucket |-> [name |-> b], object |-> [key |-> k]]]>>]

WellFormedEvents == {S3Event(b, k) : b \in BucketNames, k \in ObjectKeys}

\* payloads with one required field missing
MalformedEvents ==
    {[Other |-> "x"],
     [Records |-> <<>>],
     [Records |-> <<[eventName |-> "x"]>>],
     [Records |-> <<[s3 |-> [object |-> [key |-> <<"k">>]]]>>],
     [Records |-> <<[s3 |-> [bucket |-> [arn |-> "x"], object |-> [key |-> <<"k">>]]]>>],
     [Records |-> <<[s3 |-> [bucket |-> [name |-> "bkt"]]]>>],
     [Records |-> <<[s3 |-> [bucket |-> [name |-> "bkt"], object |-> [size |-> "x"]]]>>]}

\* the character a %XX escape stands for; a byte that is no UTF-8 text on
\* its own decodes to U+FFFD (errors='replace')
HexChar(h, l) ==
    CASE h = "2" /\ l = "F" -> "/"
      [] h = "2" /\ l = "2" -> "quote"
      [] OTHER -> "U+FFFD"

\* urllib.parse.unquote
RECURSIVE unquote(_)
unquote(s) ==
    IF s = <<>> THEN <<>>
    ELSE IF s[1] = "%" /\ Len(s) >= 3 /\ s[2] \in HexDigits /\ s[3] \in HexDigits
    THEN <<HexChar(s[2], s[3])>> \o unquote(SubSeq(s, 4, Len(s)))
    ELSE <<s[1]>> \o unquote(Tail(s))

\* urllib.parse.unquote_plus: '+' becomes a space, then unquote
unquote_plus(s) ==
    unquote([i \in DOMAIN s |-> IF s[i] = "+" THEN " " ELSE s[i]])

\* s.split('/')[-1]
RECURSIVE LastSegment(_)
LastSegment(s) ==
    IF s = <<>> THEN <<>>
    ELSE IF s[Len(s)] = "/" THEN <<>>
    ELSE Append(LastSegment(SubSeq(s, 1, Len(s) - 1)), s[Len(s)])

\* FileName with a fault: the key is split before it is decoded
FileNameSplitFirst(key) == unquote_plus(LastSegment(key))

\* lines 10-12
FileName(key) == LastSegment(unquote_plus(key))

\* event['Records'][0]['s3'] can be read
HasS3(e) ==
    /\ "Records" \in DOMAIN e
    /\ Len(e.Records) >= 1
    /\ "s3" \in DOMAIN e.Records[1]

\* line 9 does not raise
HasBucketName(e) ==
    /\ HasS3(e)
    /\ "bucket" \in DOMAIN e.Records[1].s3
    /\ "name" \in DOMAIN e.Records[1].s3.bucket

\* line 10 does not raise
HasObjectKey(e) ==
    /\ HasS3(e)
    /\ "object" \in DOMAIN e.Records[1].s3
    /\ "key" \in DOMAIN e.Records[1].s3.object

\* lines 5-42: one invocation on payload e; start_job_run may itself raise
lambda_handler(e) ==
    /\ event = NoEvent
    /\ event' = e
    /\ IF ~HasBucketName(e) \/ ~HasObjectKey(e)
       THEN /\ calls' = <<>>
            /\ result' = [kind |-> "raised"]
       ELSE LET bucket_name == e.Records[1].s3.bucket.name
                file_name == FileName(e.Records[1].s3.object.key)
            IN  /\ calls' = <<[JobName |-> "consolidate-employee-data-lewis",
                               dst_bucket_name |-> bucket_name,
                               file_name |-> file_name]>>
                /\ \E started \in BOOLEAN :
                      result' = IF started
                                THEN [kind |-> "returned", statusCode |-> 200,
                                      bucket |-> bucket_name, file |-> file_name,
                                      jobRunId |-> "jr_1"]
                                ELSE [kind |-> "raised"]
    /\ UNCHANGED jobVars

\* the invocation is over; the next one shares nothing with it
InvocationEnds ==
    /\ event # NoEvent
    /\ event' = NoEvent
    /\ calls' = <<>>
    /\ result' = [kind |-> "none"]
    /\ UNCHANGED jobVars

(* --------------------------- specifications --------------------------- *)
\* CDC files in which no PersonID occurs twice among the Insert and Update
\* lines
CleanCdcFiles ==
    {f \in BagsUpTo(Lines4, MaxBatch) :
        /\ f # EmptyBag
        /\ \A t \in DOMAIN f : t[1] \in {"I", "U"} => f[t] = 1
        /\ \A t, u \in DOMAIN f :
              (t # u /\ t[1] \in {"I", "U"} /\ u[1] \in {"I", "U"})
                 => CastInt(t[2]) # CastInt(u[2])}

\* two short snapshot files, enough to tell two runs apart
RaceFiles == {SetToBag({<<"1", n, "c">>}) : n \in Names}

InitFresh == Init /\ canonical = NoFile

\* one run of the script on any input file, over any final file
StartRun == Setup(1, InputFiles, {now}, 1)

Next ==
    \/ StartRun
    \/ ReadInput(1)
    \/ ApplyLogic(1)
    \/ WriteTemp(1)
    \/ move_part_to_final(1)
    \/ cleanup_temp_folder(1)
    \/ cleanup_temp_folder_raises(1)
    \/ Commit(1)

Spec == Init /\ [][Next]_vars

\* runs one after another from no final file, each on a clean CDC file
StartCdcRun == Setup(1, CleanCdcFiles, {now}, MaxRuns)

NextCdc ==
    \/ StartCdcRun
    \/ ReadInput(1)
    \/ ApplyLogic(1)
    \/ WriteTemp(1)
    \/ move_part_to_final(1)
    \/ cleanup_temp_folder(1)
    \/ cleanup_temp_folder_raises(1)
    \/ Commit(1)

SpecCdc == InitFresh /\ [][NextCdc]_vars

\* runs that interleave; the clock may stand still between two starts
StartAnyRun(r) == Setup(r, RaceFiles, now .. MaxTs, MaxRuns)

NextConc ==
    \E r \in Slots :
        \/ StartAnyRun(r)
        \/ ReadInput(r)
        \/ ApplyLogic(r)
        \/ WriteTemp(r)
        \/ move_part_to_final(r)
        \/ cleanup_temp_folder(r)
        \/ cleanup_temp_folder_raises(r)
        \/ Commit(r)

SpecConc == InitFresh /\ [][NextConc]_vars

\* the trigger adapter alone
NextTrigger ==
    \/ \E e \in WellFormedEvents \cup MalformedEvents : lambda_handler(e)
    \/ InvocationEnds

SpecTrigger == InitFresh /\ [][NextTrigger]_vars

(* ------------------------------ claims -------------------------------- *)
\* the typed row of a CDC line, and of a snapshot line
Row4(t) == [PersonID |-> CastInt(t[2]), FullName |-> t[3], City |-> t[4]]
Row3(t) == [PersonID |-> CastInt(t[1]), FullName |-> t[2], City |-> t[3]]

IsInsertOrUpdate(t) == t[1] \in {"I", "U"}

\* the rows of the chosen lines of f, each as often as its lines occur
RowsOfLines(f, chosen, row) ==
    [y \in {row[t] : t \in chosen} |->
        SumCounts(f, {t \in chosen : row[t] = y})]

InsertUpdateLines(f) == {t \in DOMAIN f : IsInsertOrUpdate(t)}

\* the final key has not been written since ApplyLogic read it
BeforePromotion(r) == pc[r] \in {"write", "promote"}

\* no PersonID occurs twice in the final file
UniquePrior ==
    LET prior == ReadExisting(canonical)
    IN  \A p, q \in DOMAIN prior :
           prior[p] = 1 /\ (p # q => p.PersonID # q.PersonID)

\* no PersonID occurs twice in the batch, under one Op or under two
DisjointBatch(f) ==
    \A t, u \in DOMAIN f : f[t] = 1 /\ (t # u => CastInt(t[2]) # CastInt(u[2]))

\* the prior rows that no Delete or Update line of f matches
KeptRows(f) ==
    {p \in DOMAIN ReadExisting(canonical) :
        ~ \E t \in DOMAIN f :
            t[1] \in {"D", "U"} /\ KeyEq(p.PersonID, CastInt(t[2]))}

\* C1: for a prior Snapshot with unique PersonIDs that was read, and a CDC
\* batch whose Insert, Update and Delete PersonIDs are pairwise disjoint and
\* free of duplicates, the computed Snapshot is the prior rows whose PersonID
\* no Delete and no Update matches, together with the Insert and Update rows.
C1_CdcMerge ==
    (/\ BeforePromotion(1)
     /\ fileType[1] = "cdc"
     /\ ~warned[1]
     /\ UniquePrior
     /\ DisjointBatch(input[1]))
    => df[1] = SetToBag(KeptRows(input[1]))
               (+) SetToBag({Row4(t) : t \in {u \in DOMAIN input[1] :
                                                 IsInsertOrUpdate(u)}})

\* a merge that deleted one prior row and replaced another
C1_Witness ==
    /\ pc[1] = "write"
    /\ fileType[1] = "cdc"
    /\ ~warned[1]
    /\ UniquePrior
    /\ DisjointBatch(input[1])
    /\ \E t, u \in DOMAIN input[1], p, q \in DOMAIN ReadExisting(canonical) :
          /\ t[1] = "D" /\ KeyEq(p.PersonID, CastInt(t[2]))
          /\ u[1] = "U" /\ KeyEq(q.PersonID, CastInt(u[2]))
          /\ Row4(u) # q
          /\ Row4(u) \in DOMAIN df[1]
          /\ p \notin DOMAIN df[1]

\* C2: every step of a run leaves the final key as it was or replaces it, in
\* Step D, by the complete CSV of the newly computed Snapshot; a Step D that
\* finds no part file leaves it as it was.
C2_PromotionAtomic ==
    /\ [][\/ canonical' = canonical
          \/ /\ pc[1] = "promote"
             /\ pc'[1] = "cleanup"
             /\ canonical' = CsvWrite(df[1])]_vars
    /\ [][(/\ pc[1] = "promote"
           /\ ~ \E o \in temp[TempPrefix(ts[1])] : o.name = "part.csv")
          => canonical' = canonical]_vars

\* Step D found no part file over an existing final file that differs from
\* the new Snapshot, and the run went on
C2_Witness ==
    /\ pc[1] = "cleanup"
    /\ copied[1] = 0
    /\ canonical.exists
    /\ canonical.rows # EmptyBag
    /\ canonical # CsvWrite(df[1])
    /\ df[1] # EmptyBag

\* C3 (as claimed): a run whose Step D found no part file never commits.
C3_NoPartNeverCommits == pc[1] = "committed" => copied[1] # 0

\* C4: a run on an input of neither 3 nor 4 columns ends in ValueError at the
\* classification: nothing is under its temporary prefix, it copied nothing,
\* no step of it changes the final key, and it never commits.
C4_UnexpectedSchema ==
    /\ []((pc[1] # "idle" /\ NumCols(input[1]) \notin {3, 4})
          => /\ pc[1] \in {"read", "failed"}
             /\ pc[1] = "failed" => err[1] = "ValueError"
             /\ temp[TempPrefix(ts[1])] = {}
             /\ copied[1] = 0)
    /\ [][(pc[1] # "idle" /\ NumCols(input[1]) \notin {3, 4})
          => (canonical' = canonical /\ temp' = temp)]_vars

\* a 5-column input was rejected over an existing final file
C4_Witness ==
    /\ pc[1] = "failed"
    /\ err[1] = "ValueError"
    /\ NumCols(input[1]) = 5
    /\ canonical.exists
    /\ canonical.rows # EmptyBag

\* C5: when the final file is missing or its read raises, the CDC batch is
\* merged over the empty frame: the new Snapshot is the Insert and Update
\* rows, and the run is not ended by the read.
C5_FirstRun ==
    /\ (BeforePromotion(1) /\ fileType[1] = "cdc")
       => /\ ~canonical.exists => warned[1]
          /\ warned[1] => df[1] = RowsOfLines(input[1], InsertUpdateLines(input[1]),
                                        [t \in DOMAIN input[1] |-> Row4(t)])
    /\ (pc[1] = "failed" /\ fileType[1] = "cdc")
       => err[1] \in {"WriteError", "CopyError", "ClientError"}

\* the read of an existing, non-empty final file raised, and the batch, a
\* Delete line in it, was merged over nothing
C5_Witness ==
    /\ pc[1] = "write"
    /\ fileType[1] = "cdc"
    /\ warned[1]
    /\ canonical.exists
    /\ canonical.rows # EmptyBag
    /\ \E t, u \in DOMAIN input[1] : t[1] = "D" /\ u[1] = "I"
    /\ BagCardinality(df[1]) = 1

\* C6: for a 3-column batch the new Snapshot is the batch with PersonID cast
\* to int, whatever the final file holds, and that is what a promotion puts
\* at the final key.
C6_SnapshotReplaces ==
    fileType[1] = "snapshot"
    => /\ pc[1] # "apply"
          => df[1] = RowsOfLines(input[1], DOMAIN input[1],
                                 [t \in DOMAIN input[1] |-> Row3(t)])
       /\ copied[1] # 0
          => /\ canonical.header = <<"PersonID", "FullName", "City">>
             /\ canonical.rows =
                  RowsOfLines(input[1], DOMAIN input[1],
                      [t \in DOMAIN input[1] |->
                          <<IF t[1] \in {"1", "2"} THEN t[1] ELSE "",
                            t[2], t[3]>>])

\* a snapshot batch with a non-numeric PersonID was computed over a final
\* file that holds other rows
C6_Witness ==
    /\ pc[1] = "write"
    /\ fileType[1] = "snapshot"
    /\ canonical.exists
    /\ \E l \in DOMAIN canonical.rows :
          \A t \in DOMAIN input[1] : l[1] # t[1]
    /\ \E t \in DOMAIN input[1] : t[1] = "x"
    /\ BagCardinality(df[1]) = 2

\* C7 (as claimed): after runs on clean CDC batches from no Snapshot, no two
\* rows of the final file share a PersonID.
C7_UniqueKey ==
    canonical.exists
    => \A l, m \in DOMAIN canonical.rows :
          l[1] # ""
          => /\ canonical.rows[l] = 1
             /\ (l # m => l[1] # m[1])

\* the characters of a sequence
Chars(q) == {q[i] : i \in DOMAIN q}

\* C8: a well-formed notification makes exactly one start_job_run call, with
\* the container name and the last path segment of the decoded key; a
\* notification with a required field missing makes none and raises.
C8_OneDispatch ==
    event # NoEvent
    => IF event \in WellFormedEvents
       THEN LET d == unquote_plus(event.Records[1].s3.object.key)
            IN  /\ Len(calls) = 1
                /\ calls[1].dst_bucket_name = event.Records[1].s3.bucket.name
                /\ "/" \notin Chars(calls[1].file_name)
                /\ \E i \in 0 .. Len(d) :
                      /\ SubSeq(d, i + 1, Len(d)) = calls[1].file_name
                      /\ i = 0 \/ d[i] = "/"
                /\ result.kind = "returned"
                   => /\ result.bucket = calls[1].dst_bucket_name
                      /\ result.file = calls[1].file_name
       ELSE calls = <<>> /\ result.kind = "raised"

\* a key whose escaped slash is a path separator once decoded
C8_Witness ==
    /\ event \in WellFormedEvents
    /\ event.Records[1].s3.object.key = <<"%", "2", "F", "k">>
    /\ result.kind = "returned"
    /\ Len(calls) = 1
    /\ calls[1].file_name = <<"k">>

\* C9 (as claimed): once promotion has succeeded the run is not ended by the
\* cleanup.
C9_CleanupNeverFatal == ~(pc[1] = "failed" /\ copied[1] # 0)

\* C10 (as claimed): the part files under a run's temporary prefix are its
\* own when it promotes, and the part file a run copied is the one it wrote.
C10_OwnPrefix ==
    \A r \in Slots :
        /\ copied[r] \in {0, rid[r]}
        /\ pc[r] = "promote"
           => \A o \in temp[TempPrefix(ts[r])] :
                 IsPartFile(o) => o.writer = rid[r]

=============================================================================
